---- MODULE Spec2Model ----
(***************************************************************************)
(* Kernel messaging session (RemoteKernelSession) and execution controller *)
(* (RemoteKernelController) of the JupyterHub remote extension.            *)
(*                                                                         *)
(* Spec     : the Kernel Session driven through its public API by any      *)
(*            caller, with the transport and the kernel as environment.    *)
(* CtlSpec  : the Execution Controller driving the sessions it creates.    *)
(* CtlFair  : CtlSpec with weak fairness of every step (the event loop     *)
(*            runs every callback that is ready).                          *)
(***************************************************************************)
EXTENDS Integers, Sequences, FiniteSets, TLC

\* ------------------------------------------------------------- bounds
NumSessions == 2   \* RemoteKernelSession objects that can exist
MaxEvents   == 4   \* in one run: calls made from outside (connect, executeCode,
                   \* requestComplete of a session; executeHandler and dispose
                   \* of the controller), notebooks closed, frames delivered
NumDocs     == 2   \* notebook documents
MaxHandlers == 2   \* executeHandler invocations in one run
MaxCells    == 2   \* cells in one batch
MaxOutMsgs  == 2   \* messages handed to handleIOPubMessage for one execution
MaxKeys     == 2   \* MIME-type keys in content.data of one message
MaxCfgRetries == 4 \* largest configured jupyterhub.maxRetries
MaxStarts   == 2   \* calls of MetricsManager.start()
MaxPolls    == 7   \* metrics requests issued
NumHubs     == 2   \* hub URLs the user connects to
MaxTokens   == 2   \* tokens the user types in
NumSpecs    == 2   \* kernelspecs a server can offer
MaxRefresh  == 3   \* calls of refreshControllers
MaxConnects == 3   \* calls of connectServer
MaxOverlap == 2    \* connectServer calls running at the same time

Sessions == 1..NumSessions
Docs     == 1..NumDocs
Handlers == 1..MaxHandlers

VARIABLES
    \* ---- RemoteKernelSession
    nsess,      \* number of session objects constructed so far
    ws,         \* ws[s]: readyState of this.ws ("null" before the first connect)
    wsCreated,  \* wsCreated[s]: number of `new WebSocket` evaluated by session s
    wsOwner,    \* wsOwner[s]: the connect() call whose promise listens on this.ws
    dropped,    \* dropped[s]: a close, error or dispose has happened on s
    connects,   \* connect() calls: [sess, outcome, atSettle]
    table,      \* table[s]: keys of msgIdToHandler
    calls,      \* executeCode and requestComplete calls: [sess, kind, sent,
                \* outcome, result, sink, seen]; the index is the msg_id.
                \* result: what the promise resolved with (-1: nothing yet, or
                \* void; 0: null; p: the content of the kernel's answer to
                \* request p). sink: what onOutput was called with. seen: the
                \* frames with this parent id that the transport of the call's
                \* session delivered, up to and including the terminal one
    logged,     \* logged[s]: 'Error parsing kernel message' entries logged by s
    nevents,    \* calls from outside and delivered frames so far
    \* ---- RemoteKernelController
    executions, \* executions[d]: session stored for document d (0: none)
    hpc,        \* hpc[h]: position of executeHandler invocation h
    hdoc,       \* hdoc[h]: its notebook
    hcells,     \* hcells[h]: number of cells of its batch
    hsess,      \* hsess[h]: its local variable `session` (0: undefined)
    hcell,      \* hcell[h]: index of the cell being executed
    hcall,      \* hcall[h]: the executeCode call it awaits (0: none)
    hkernel,    \* hkernel[h]: startKernel returned a kernel to this invocation
    hreported,  \* hreported[h]: showErrorMessage was called by this invocation
    hresults,   \* hresults[h]: execution.end(success) of each cell, in order
                \* (FALSE: the catch block replaced the output by the exception
                \* and ended the execution as failed)
    hcalls,     \* hcalls[h]: the cell executions it created, in order: [id, cell,
                \* order], id the executeCode call, order the executionOrder
    executionOrder, \* this.executionOrder
    disposed,   \* dispose() of the controller has run
    docClosed,  \* docClosed[d]: the editor has closed notebook d
    sessDoc,    \* sessDoc[s]: the document whose handler constructed session s
    reused,     \* reused[h]: readyState of the stored session h took from the map
                \* ("none": it took none)
    failSaw     \* failSaw[h]: executions[hdoc[h]] when the catch block of h returned
                \* (-1: it has not)

svars == <<ws, wsCreated, wsOwner, dropped, connects, table, calls, logged>>
cvars == <<executions, hpc, hdoc, hcells, hsess, hcell, hcall, hkernel,
           hreported, hresults, hcalls, executionOrder, disposed, docClosed,
           sessDoc, reused, failSaw>>

VARIABLES
    \* ---- RemoteKernelController.handleIOPubMessage, for one cell execution
    omsgs,      \* the messages onOutput was called with, in order
    oouts       \* the outputs appended to the execution: [from, items], from:
                \* the index in omsgs of the message that produced it

ovars == <<omsgs, oouts>>

VARIABLES
    \* ---- HttpClient, for one call of request()
    hcfg,       \* this.config.maxRetries
    hphase,     \* "idle", "inflight" (axios.request pending), "backoff" (delay
                \* pending), "returned", "thrown"
    hretry,     \* retryCount of the running invocation of request()
    hsends,     \* what each HTTP call sent so far was answered with, in order
    herr        \* the error request() threw

hvars == <<hcfg, hphase, hretry, hsends, herr>>

VARIABLES
    \* ---- MetricsManager
    mtimer,     \* this.timer: 0 for null, else the interval timer start() number
                \* mtimer created
    mactive,    \* the interval timers that are set and not cleared
    mapi,       \* this.api: 0 for null, else the start() that created it
    msupported, \* this.isSupported
    merrors,    \* this.consecutiveErrors
    mgen,       \* calls of start() so far
    mflight,    \* per start(): its getMetrics() requests still awaited
    mpolls,     \* metrics requests issued so far
    msaw404,    \* since the last start(), a poll was answered with HTTP 404
    mafter404,  \* metrics requests issued since then
    mstreak     \* since the last start(), the polls that ended last, in a row,
                \* with an error other than an HTTP 404

mvars == <<mtimer, mactive, mapi, msupported, merrors, mgen, mflight, mpolls,
           msaw404, mafter404, mstreak>>

VARIABLES
    \* ---- what the extension stores: SecretStorage and the settings. A hub URL
    \* is a number in 1..NumHubs, in the normal form connectServer stores it in
    tsecret,    \* SecretStorage: key 0 is 'jupyterhub.token', key u is
                \* 'jupyterhub.token.<u>'; 0 for no value, else the token
    tsetting,   \* setting tokenByServer: per URL, 0 or the token
    trecent,    \* setting recentServers, most recent first
    tprofile,   \* the URLs that are keys of setting profileByServer
    tuseropts,  \* the URLs that are keys of setting userOptionsByServer
    tserver,    \* setting serverUrl: 0 for '', else the URL
    tinsecure,  \* setting allowInsecureTokenStorage
    ntok,       \* tokens typed in so far; the next one is ntok + 1
    towner,     \* per token typed in: the URL whose prompt it was typed into
    tsent       \* <<URL, token>>: the token was handed to a JupyterHubApi
                \* client built for the URL

tvars == <<tsecret, tsetting, trecent, tprofile, tuseropts, tserver, tinsecure,
           ntok, towner, tsent>>

VARIABLES
    \* ---- KernelControllerManager
    kall,       \* every controller created so far: [spec, by, disposed], `by`
                \* the refreshControllers call that created it
    kheld,      \* this.controllers, as indices of kall
    kref,       \* per refreshControllers call: "await" (the kernelspec request
                \* is pending), "done" or "failed"
    kexpect     \* the kernelspecs of the last refresh that succeeded, {} once
                \* dispose() ran after it

kvars == <<kall, kheld, kref, kexpect>>

VARIABLES
    \* ---- the connection state of the extension (module variables of
    \* extension.ts and the context key); the setting serverUrl is tserver
    conn,       \* [hub, apis, user, metrics, ctls, ctx]: hub: the URL hubApi was
                \* built for (0: hubApi is null); apis: contentsApi, kernelsApi
                \* and terminalsApi are set; user: currentUser is set; metrics:
                \* metricsManager was started and not stopped by the extension;
                \* ctls: refreshControllers ran and the manager was not disposed
                \* since; ctx: the context key jupyterhub.connected
    cpc,        \* per connectServer call that can run at a time: where it
                \* waits: "idle" (not running), "url", "token" (input boxes),
                \* "auth", "server", "refresh", "recent" (requests and updates
                \* awaited), "closing" (the await of disconnectServer, in the
                \* catch block)
    curl,       \* per call: its local variable url (0: undefined)
    cend,       \* per call: how it last ended: [how, at], at: the cpc it ended
                \* from
    nconn       \* connectServer calls so far

nvars == <<conn, cpc, curl, cend, nconn>>

\* the state of the components a specification does not exercise
xvars == <<ovars, hvars, mvars, tvars, kvars, nvars>>

vars  == <<svars, nsess, nevents, cvars, xvars>>

\* no message has been handed to handleIOPubMessage
OutInit == omsgs = <<>> /\ oouts = <<>>

\* the maxRetries the constructor of HttpClient uses when none is given
DefaultRetries == 3

NoError == [status |-> 0, response |-> [kind |-> "empty", status |-> 0]]

\* a client constructed with maxRetries = n, no request made
HttpInit(n) ==
    /\ hcfg = n
    /\ hphase = "idle"
    /\ hretry = 0
    /\ hsends = <<>>
    /\ herr = NoError

\* a MetricsManager as constructed
MetInit ==
    /\ mtimer = 0
    /\ mactive = {}
    /\ mapi = 0
    /\ msupported = TRUE
    /\ merrors = 0
    /\ mgen = 0
    /\ mflight = [g \in 1..MaxStarts |-> 0]
    /\ mpolls = 0
    /\ msaw404 = FALSE
    /\ mafter404 = 0
    /\ mstreak = 0

\* a fresh installation: nothing stored, the settings at their defaults
StoreInit ==
    /\ tsecret = [k \in 0..NumHubs |-> 0]
    /\ tsetting = [u \in 1..NumHubs |-> 0]
    /\ trecent = <<>>
    /\ tprofile = {}
    /\ tuseropts = {}
    /\ tserver = 0
    /\ tinsecure = FALSE
    /\ ntok = 0
    /\ towner = <<>>
    /\ tsent = {}

\* a KernelControllerManager as constructed
KcmInit ==
    /\ kall = <<>>
    /\ kheld = {}
    /\ kref = <<>>
    /\ kexpect = {}

\* disconnectServer(): the clients and currentUser are null, metricsManager is
\* stopped, the controller manager disposed, the context key false
Disconnected ==
    [hub |-> 0, apis |-> FALSE, user |-> FALSE, metrics |-> FALSE,
     ctls |-> FALSE, ctx |-> FALSE]

\* the extension as activated, before any connection
ConnInit ==
    /\ conn = Disconnected
    /\ cpc = [c \in 1..MaxOverlap |-> "idle"]
    /\ curl = [c \in 1..MaxOverlap |-> 0]
    /\ cend = [c \in 1..MaxOverlap |-> [how |-> "none", at |-> "idle"]]
    /\ nconn = 0

\* the components a specification does not exercise are at rest
XInit ==
    /\ OutInit /\ HttpInit(DefaultRetries) /\ MetInit /\ StoreInit /\ KcmInit
    /\ ConnInit

\* ------------------------------------------------------------- messages
OutputTypes == {"stream", "execute_result", "display_data", "error"}

\* msg_type (and content.execution_state of a status message) of an inbound
\* frame; "garbage" is a frame JSON.parse rejects.
FrameKinds ==
    {[type |-> t, state |-> ""] :
        t \in OutputTypes \cup {"execute_reply", "complete_reply", "garbage"}}
    \cup {[type |-> "status", state |-> st] : st \in {"busy", "idle"}}

SentIds == {c \in DOMAIN calls : calls[c].sent}

\* msg.content of a message: a kernel answers the complete_request p with the
\* matches it computed for p; the content of the other messages is not read by
\* the session
ContentOf(p, k) == IF k.type = "complete_reply" THEN p ELSE 0

\* Frames the kernel behind session s can emit: a reply or side effect of a
\* request that was sent (on any session: ids of other clients reach a kernel's
\* broadcast channel too), a message with no parent id, or an unparseable frame.
KernelFrames(s) ==
    {[parent |-> p, type |-> k.type, state |-> k.state, content |-> ContentOf(p, k),
      src |-> s] :
        p \in {0} \cup SentIds, k \in {x \in FrameKinds : x.type # "garbage"}}
    \cup {[parent |-> 0, type |-> "garbage", state |-> "", content |-> 0,
            src |-> s]}

\* ------------------------------------------------------------- RemoteKernelSession
\* a connect() that returns early only when the transport is open
AlreadyConnected_OpenOnly(s) == ws[s] = "OPEN"

\* connect(): the guard of the early return
AlreadyConnected(s) == ws[s] \in {"OPEN", "CONNECTING"}

Settle(c, out, st) ==
    [connects EXCEPT ![c].outcome = out, ![c].atSettle = st]

\* connect(): an early return resolves the call at once; otherwise a new
\* WebSocket replaces this.ws and the returned promise waits for its first
\* 'open' or 'error'.
SessConnect(s) ==
    /\ IF AlreadyConnected(s)
       THEN /\ connects' = Append(connects,
                   [sess |-> s, outcome |-> "resolved", atSettle |-> ws[s]])
            /\ UNCHANGED <<ws, wsCreated, wsOwner>>
       ELSE /\ ws' = [ws EXCEPT ![s] = "CONNECTING"]
            /\ wsCreated' = [wsCreated EXCEPT ![s] = @ + 1]
            /\ wsOwner' = [wsOwner EXCEPT ![s] = Len(connects) + 1]
            /\ connects' = Append(connects,
                   [sess |-> s, outcome |-> "pending", atSettle |-> "none"])
    /\ UNCHANGED <<dropped, table, calls, logged>>

\* the transport reports 'open': once('open') resolves the promise
SessOpen(s) ==
    /\ ws[s] = "CONNECTING"
    /\ ws' = [ws EXCEPT ![s] = "OPEN"]
    /\ connects' = Settle(wsOwner[s], "resolved", "OPEN")
    /\ UNCHANGED <<wsCreated, wsOwner, dropped, table, calls, logged>>

\* what the once('error') listener does to the promise of this.ws
RejectIfPending(s) ==
    IF wsOwner[s] # 0 /\ connects[wsOwner[s]].outcome = "pending"
    THEN Settle(wsOwner[s], "rejected", "CLOSING")
    ELSE connects

\* the transport reports 'error' (handshake failure, or a drop after open):
\* the socket goes to CLOSING, the error is logged, once('error') rejects
SessError(s) ==
    /\ ws[s] \in {"CONNECTING", "OPEN"}
    /\ ws' = [ws EXCEPT ![s] = "CLOSING"]
    /\ connects' = RejectIfPending(s)
    /\ dropped' = [dropped EXCEPT ![s] = TRUE]
    /\ UNCHANGED <<wsCreated, wsOwner, table, calls, logged>>

\* the transport reports 'close': no listener is registered for it
SessClose(s) ==
    /\ ws[s] \in {"OPEN", "CLOSING"}
    /\ ws' = [ws EXCEPT ![s] = "CLOSED"]
    /\ dropped' = [dropped EXCEPT ![s] = TRUE]
    /\ UNCHANGED <<wsCreated, wsOwner, connects, table, calls, logged>>

\* a dispose() that also fails the requests in flight and clears the table
SessDispose_RejectsPending(s) ==
    /\ ws[s] # "null"
    /\ ws' = [ws EXCEPT ![s] =
                 IF @ \in {"CONNECTING", "OPEN"} THEN "CLOSING" ELSE @]
    /\ connects' = IF ws[s] = "CONNECTING" THEN RejectIfPending(s) ELSE connects
    /\ dropped' = [dropped EXCEPT ![s] = TRUE]
    /\ calls' = [c \in DOMAIN calls |->
                    IF c \in table[s]
                    THEN [calls[c] EXCEPT !.outcome = "rejected"] ELSE calls[c]]
    /\ table' = [table EXCEPT ![s] = {}]
    /\ UNCHANGED <<wsCreated, wsOwner, logged>>

\* dispose(): this.ws.close() when this.ws is set; closing a socket that is
\* still connecting aborts the handshake, which the socket reports as 'error'
SessDispose(s) ==
    /\ ws[s] # "null"
    /\ ws' = [ws EXCEPT ![s] =
                 IF @ \in {"CONNECTING", "OPEN"} THEN "CLOSING" ELSE @]
    /\ connects' = IF ws[s] = "CONNECTING" THEN RejectIfPending(s) ELSE connects
    /\ dropped' = [dropped EXCEPT ![s] = TRUE]
    /\ UNCHANGED <<wsCreated, wsOwner, table, calls, logged>>

\* a guard that lets a request through on a socket that is closing
NotConnected_ClosedOnly(s) == ws[s] \notin {"OPEN", "CLOSING"}

\* executeCode() and requestComplete(): the guard `!this.ws ||
\* this.ws.readyState !== WebSocket.OPEN`
NotConnected(s) == ws[s] # "OPEN"

\* a call that ended at its guard: nothing sent, no handler registered
Refused(s, kind, out, res) ==
    [sess |-> s, kind |-> kind, sent |-> FALSE, outcome |-> out,
     result |-> res, sink |-> <<>>, seen |-> <<>>, atSend |-> FALSE]

\* a call that sent its request and waits on the returned promise; atSend
\* tells whether msgIdToHandler held the new id when ws.send() ran, which is
\* before the executor of the returned promise stores the handler
Requested(s, kind) ==
    [sess |-> s, kind |-> kind, sent |-> TRUE, outcome |-> "pending",
     result |-> -1, sink |-> <<>>, seen |-> <<>>,
     atSend |-> (Len(calls) + 1) \in table[s]]

\* a call that leaves the registration to a later turn of the event loop
Registered_Deferred(s, id) == table[s]

\* msgIdToHandler.set(msgId, handler), in the executor of the promise the
\* call returns, which runs before the call gives control back
Registered(s, id) == table[s] \cup {id}

\* executeCode(): throws when the transport is not open; otherwise sends the
\* execute_request with a fresh msg_id and registers the handler under it
SessExecuteCode(s) ==
    /\ IF NotConnected(s)
       THEN /\ calls' = Append(calls, Refused(s, "execute", "rejected", -1))
            /\ UNCHANGED table
       ELSE /\ calls' = Append(calls, Requested(s, "execute"))
            /\ table' = [table EXCEPT ![s] = Registered(s, Len(calls) + 1)]
    /\ UNCHANGED <<ws, wsCreated, wsOwner, dropped, connects, logged>>

\* requestComplete(): returns null when the transport is not open; otherwise
\* sends the complete_request with a fresh msg_id and registers the handler
SessRequestComplete(s) ==
    /\ IF NotConnected(s)
       THEN /\ calls' = Append(calls, Refused(s, "complete", "resolved", 0))
            /\ UNCHANGED table
       ELSE /\ calls' = Append(calls, Requested(s, "complete"))
            /\ table' = [table EXCEPT ![s] = Registered(s, Len(calls) + 1)]
    /\ UNCHANGED <<ws, wsCreated, wsOwner, dropped, connects, logged>>

\* a handler that does not forward error messages
IsOutput_NoError(f) == f.type \in OutputTypes \ {"error"}

\* the handler of executeCode: which messages go to onOutput
IsOutput(f) == f.type \in OutputTypes

\* a handler that completes on any status message
IsIdle_AnyStatus(f) == f.type = "status"

\* the handler of executeCode: which message completes the request
IsIdle(f) == f.type = "status" /\ f.state = "idle"

\* a handler that treats an error message as the end of the request
ExecHandler_ErrorEnds(call, f) ==
    [call EXCEPT !.sink = IF f.type \in OutputTypes THEN Append(@, f) ELSE @,
                 !.outcome = IF f.type = "error" \/ f.state = "idle"
                             THEN "resolved" ELSE @]

\* the handler executeCode registers under its msg_id
ExecHandler(call, f) ==
    [call EXCEPT !.sink = IF IsOutput(f) THEN Append(@, f) ELSE @,
                 !.outcome = IF IsIdle(f) THEN "resolved" ELSE @]

\* a handler that takes any reply message as the answer
CompleteHandler_AnyReply(call, f) ==
    IF f.type \in {"complete_reply", "execute_reply"}
    THEN [call EXCEPT !.outcome = "resolved", !.result = f.content]
    ELSE call

\* the handler requestComplete registers under its msg_id: a complete_reply
\* resolves the promise with msg.content
CompleteHandler(call, f) ==
    IF f.type = "complete_reply"
    THEN [call EXCEPT !.outcome = "resolved", !.result = f.content]
    ELSE call

\* the handler stored under the msg_id of a call
HandlerOf(call, f) ==
    IF call.kind = "execute" THEN ExecHandler(call, f) ELSE CompleteHandler(call, f)

\* a dispatch that ignores the parent id
Routes_All(s, f) == table[s]

\* a dispatch that hands a message it cannot match to every handler
Routes_Fallback(s, f) ==
    IF f.parent # 0 /\ f.parent \in table[s] THEN {f.parent} ELSE table[s]

\* handleMessage(): the handlers a parsed message is dispatched to
Routes(s, f) ==
    IF f.parent # 0 /\ f.parent \in table[s] THEN {f.parent} ELSE {}

\* a listener whose catch block fails the requests that are waiting
OnMessage_ParseErrorFails(s, f) ==
    [c \in DOMAIN calls |->
        IF f.type = "garbage" /\ c \in table[s]
        THEN [calls[c] EXCEPT !.outcome = "rejected"]
        ELSE IF f.type # "garbage" /\ f.parent = c /\ c \in table[s]
             THEN HandlerOf(calls[c], f) ELSE calls[c]]

\* the 'message' listener: JSON.parse, then handleMessage; a parse error is
\* caught and logged
OnMessage(s, f) ==
    LET to == IF f.type = "garbage" THEN {} ELSE Routes(s, f) IN
    [c \in DOMAIN calls |-> IF c \in to THEN HandlerOf(calls[c], f) ELSE calls[c]]

\* a listener whose handlers never delete their entry
TableAfter_Keep(s, f) == table[s]

\* a listener whose handler also deletes its entry on the execute_reply
TableAfter_DropOnReply(s, f) ==
    IF f.type = "garbage" THEN table[s]
    ELSE table[s] \ {c \in Routes(s, f) :
                        \/ HandlerOf(calls[c], f).outcome # calls[c].outcome
                        \/ f.type = "execute_reply"}

\* the same listener: a handler that resolves its promise deletes its own entry
TableAfter(s, f) ==
    IF f.type = "garbage" THEN table[s]
    ELSE table[s] \ {c \in Routes(s, f) :
                        HandlerOf(calls[c], f).outcome # calls[c].outcome}

\* the same listener: the catch block logs the frame JSON.parse rejected
LoggedAfter(s, f) == IF f.type = "garbage" THEN logged[s] + 1 ELSE logged[s]

\* the message that ends a request of this kind on the wire
Ends(kind, f) ==
    IF kind = "execute" THEN f.type = "status" /\ f.state = "idle"
    ELSE f.type = "complete_reply"

\* the record of what the transport of session s delivered for each request
Observed(s, f, cs) ==
    [c \in DOMAIN cs |->
        IF /\ cs[c].sess = s /\ cs[c].sent /\ f.parent = c
           /\ (cs[c].seen = <<>>
                 \/ ~Ends(cs[c].kind, cs[c].seen[Len(cs[c].seen)]))
        THEN [cs[c] EXCEPT !.seen = Append(@, f)]
        ELSE cs[c]]

\* the kernel emits a frame and the transport, which keeps the emission order,
\* hands it to the 'message' listener (a socket that is closing still delivers)
SessDeliver(s) ==
    /\ ws[s] \in {"OPEN", "CLOSING"}
    /\ \E f \in KernelFrames(s) :
          /\ calls' = Observed(s, f, OnMessage(s, f))
          /\ table' = [table EXCEPT ![s] = TableAfter(s, f)]
          /\ logged' = [logged EXCEPT ![s] = LoggedAfter(s, f)]
    /\ UNCHANGED <<ws, wsCreated, wsOwner, dropped, connects>>

\* the idle status that ends the execute_request c on the kernel
IdleOf(c) ==
    [parent |-> c, type |-> "status", state |-> "idle", content |-> 0,
     src |-> calls[c].sess]

\* the kernel has run the code of the pending request c: it emits the idle
\* status of c and the transport hands it to the 'message' listener
SessFinish(c) ==
    /\ c \in SentIds
    /\ calls[c].kind = "execute" /\ calls[c].outcome = "pending"
    /\ ws[calls[c].sess] \in {"OPEN", "CLOSING"}
    /\ calls' = Observed(calls[c].sess, IdleOf(c), OnMessage(calls[c].sess, IdleOf(c)))
    /\ table' = [table EXCEPT ![calls[c].sess] = TableAfter(calls[c].sess, IdleOf(c))]
    /\ UNCHANGED <<ws, wsCreated, wsOwner, dropped, connects, logged>>

\* ------------------------------------------------------------- Spec
SessInit ==
    /\ ws = [s \in Sessions |-> "null"]
    /\ wsCreated = [s \in Sessions |-> 0]
    /\ wsOwner = [s \in Sessions |-> 0]
    /\ dropped = [s \in Sessions |-> FALSE]
    /\ connects = <<>>
    /\ table = [s \in Sessions |-> {}]
    /\ calls = <<>>
    /\ logged = [s \in Sessions |-> 0]
    /\ nevents = 0

CtlInit ==
    /\ executions = [d \in Docs |-> 0]
    /\ hpc = [h \in Handlers |-> "idle"]
    /\ hdoc = [h \in Handlers |-> 1]
    /\ hcells = [h \in Handlers |-> 1]
    /\ hsess = [h \in Handlers |-> 0]
    /\ hcell = [h \in Handlers |-> 0]
    /\ hcall = [h \in Handlers |-> 0]
    /\ hkernel = [h \in Handlers |-> FALSE]
    /\ hreported = [h \in Handlers |-> FALSE]
    /\ hresults = [h \in Handlers |-> <<>>]
    /\ hcalls = [h \in Handlers |-> <<>>]
    /\ executionOrder = 0
    /\ disposed = FALSE
    /\ docClosed = [d \in Docs |-> FALSE]
    /\ sessDoc = [s \in Sessions |-> 0]
    /\ reused = [h \in Handlers |-> "none"]
    /\ failSaw = [h \in Handlers |-> -1]

\* every session object has been constructed; nothing is connected
Init == SessInit /\ CtlInit /\ nsess = NumSessions /\ XInit

\* one more API call or frame, within the bound of the run
Event == nevents < MaxEvents /\ nevents' = nevents + 1

Connect(s) == Event /\ SessConnect(s) /\ UNCHANGED <<cvars, xvars, nsess>>
Open(s) == SessOpen(s) /\ UNCHANGED <<cvars, xvars, nsess, nevents>>
Error(s) == SessError(s) /\ UNCHANGED <<cvars, xvars, nsess, nevents>>
Close(s) == SessClose(s) /\ UNCHANGED <<cvars, xvars, nsess, nevents>>
Dispose(s) == SessDispose(s) /\ UNCHANGED <<cvars, xvars, nsess, nevents>>
ExecuteCode(s) == Event /\ SessExecuteCode(s) /\ UNCHANGED <<cvars, xvars, nsess>>
RequestComplete(s) == Event /\ SessRequestComplete(s) /\ UNCHANGED <<cvars, xvars, nsess>>
Deliver(s) == Event /\ SessDeliver(s) /\ UNCHANGED <<cvars, xvars, nsess>>

Next ==
    \E s \in Sessions :
        \/ Connect(s)
        \/ Open(s)
        \/ Error(s)
        \/ Close(s)
        \/ Dispose(s)
        \/ ExecuteCode(s)
        \/ RequestComplete(s)
        \/ Deliver(s)

Spec == Init /\ [][Next]_vars

\* the same session with a kernel that finishes what it was asked to run:
\* the idle status of a pending request is emitted and delivered as long as
\* the transport delivers
Finish(c) == SessFinish(c) /\ UNCHANGED <<cvars, xvars, nsess, nevents>>

LiveNext == Next \/ \E c \in 1..MaxEvents : Finish(c)

LiveSpec ==
    /\ Init /\ [][LiveNext]_vars
    /\ \A c \in 1..MaxEvents : WF_vars(Finish(c))

\* ------------------------------------------------------------- RemoteKernelController
\* a counter that every invocation of the handler starts anew
NextOrder_PerBatch(h) == Len(hcalls[h]) + 1

\* executeCell(): `++this.executionOrder`
NextOrder(h) == executionOrder + 1

\* an executeCell() whose catch block gives up the rest of the batch
StartCell_StopsOnThrow(h, s, k, n, res) ==
    /\ SessExecuteCode(s)
    /\ hcell' = [hcell EXCEPT ![h] = k]
    /\ hcalls' = [hcalls EXCEPT ![h] =
                     Append(@, [id |-> Len(calls) + 1, cell |-> k,
                                order |-> NextOrder(h)])]
    /\ executionOrder' = NextOrder(h)
    /\ IF NotConnected(s)
       THEN /\ hresults' = [hresults EXCEPT ![h] = Append(res, FALSE)]
            /\ hcall' = [hcall EXCEPT ![h] = 0]
            /\ hpc' = [hpc EXCEPT ![h] = "done"]
       ELSE /\ hresults' = [hresults EXCEPT ![h] = res]
            /\ hcall' = [hcall EXCEPT ![h] = Len(calls) + 1]
            /\ hpc' = [hpc EXCEPT ![h] = "awaitExec"]

\* executeCell() of cell k of n, up to its await: executeCode either throws (the
\* catch block ends the execution as failed and the loop goes on with the next
\* cell) or sends the request and suspends the handler
StartCell(h, s, k, n, res) ==
    /\ SessExecuteCode(s)
    /\ hcell' = [hcell EXCEPT ![h] = k]
    /\ hcalls' = [hcalls EXCEPT ![h] =
                     Append(@, [id |-> Len(calls) + 1, cell |-> k,
                                order |-> NextOrder(h)])]
    /\ executionOrder' = NextOrder(h)
    /\ IF NotConnected(s)
       THEN /\ hresults' = [hresults EXCEPT ![h] = Append(res, FALSE)]
            /\ hcall' = [hcall EXCEPT ![h] = 0]
            /\ hpc' = [hpc EXCEPT ![h] = IF k < n THEN "cells" ELSE "done"]
       ELSE /\ hresults' = [hresults EXCEPT ![h] = res]
            /\ hcall' = [hcall EXCEPT ![h] = Len(calls) + 1]
            /\ hpc' = [hpc EXCEPT ![h] = "awaitExec"]

\* executeHandler(): the lookup that decides whether a kernel is started
StoredSession(d) == executions[d]

\* executeHandler(cells, notebook) is invoked: with a stored session it goes
\* straight to the first cell, without one it calls startKernel and suspends
Invoke(h, d, n) ==
    /\ ~disposed /\ ~docClosed[d]
    /\ hpc[h] = "idle"
    /\ \A g \in Handlers : g < h => hpc[g] # "idle"
    /\ Event
    /\ hdoc' = [hdoc EXCEPT ![h] = d]
    /\ hcells' = [hcells EXCEPT ![h] = n]
    /\ hsess' = [hsess EXCEPT ![h] = StoredSession(d)]
    /\ IF StoredSession(d) # 0
       THEN /\ reused' = [reused EXCEPT ![h] = ws[StoredSession(d)]]
            /\ StartCell(h, StoredSession(d), 1, n, hresults[h])
       ELSE /\ hpc' = [hpc EXCEPT ![h] = "startKernel"]
            /\ UNCHANGED <<svars, hcell, hcall, hresults, hcalls, executionOrder,
                           reused>>
    /\ UNCHANGED <<xvars, nsess, executions, hkernel, hreported, disposed, docClosed,
                   sessDoc, failSaw>>

\* startKernel resolves: the handler constructs the session and calls connect()
KernelStarted(h) ==
    /\ hpc[h] = "startKernel"
    /\ nsess < NumSessions  \* an invocation constructs at most one session
    /\ nsess' = nsess + 1
    /\ hkernel' = [hkernel EXCEPT ![h] = TRUE]
    /\ hsess' = [hsess EXCEPT ![h] = nsess + 1]
    /\ sessDoc' = [sessDoc EXCEPT ![nsess + 1] = hdoc[h]]
    /\ SessConnect(nsess + 1)
    /\ hpc' = [hpc EXCEPT ![h] = "connect"]
    /\ UNCHANGED <<xvars, nevents, executions, hdoc, hcells, hcell, hcall, hreported,
                   hresults, hcalls, executionOrder, disposed, docClosed, reused,
                   failSaw>>

\* the catch block: showErrorMessage, return
Fail(h) ==
    /\ hreported' = [hreported EXCEPT ![h] = TRUE]
    /\ failSaw' = [failSaw EXCEPT ![h] = executions[hdoc[h]]]
    /\ hpc' = [hpc EXCEPT ![h] = "done"]
    /\ UNCHANGED <<xvars, svars, nsess, nevents, executions, hdoc, hcells, hsess, hcell,
                   hcall, hkernel, hresults, hcalls, executionOrder, disposed,
                   docClosed, sessDoc,
                   reused>>

\* startKernel rejects
KernelStartFails(h) == hpc[h] = "startKernel" /\ Fail(h)

\* the connect() the handler awaits
ConnectOf(h) == wsOwner[hsess[h]]

\* await session.connect() rejects
ConnectFails(h) ==
    /\ hpc[h] = "connect"
    /\ connects[ConnectOf(h)].outcome = "rejected"
    /\ Fail(h)

\* await session.connect() resolves: the session is stored, the first cell runs
Connected(h) ==
    /\ hpc[h] = "connect"
    /\ connects[ConnectOf(h)].outcome = "resolved"
    /\ executions' = [executions EXCEPT ![hdoc[h]] = hsess[h]]
    /\ StartCell(h, hsess[h], 1, hcells[h], hresults[h])
    /\ UNCHANGED <<xvars, nsess, nevents, hdoc, hcells, hsess, hkernel, hreported,
                   disposed, docClosed, sessDoc, reused, failSaw>>

\* the loop of executeHandler goes on after a cell whose executeCode threw
NextCell(h) ==
    /\ hpc[h] = "cells"
    /\ StartCell(h, hsess[h], hcell[h] + 1, hcells[h], hresults[h])
    /\ UNCHANGED <<xvars, nsess, nevents, executions, hdoc, hcells, hsess, hkernel, hreported,
                   disposed, docClosed, sessDoc, reused, failSaw>>

\* a loop that does not wait for the request of the cell it started
ExecSettled_NoAwait(h) == TRUE

\* executeCell(): `await session.executeCode(...)` has resolved
ExecSettled(h) == calls[hcall[h]].outcome = "resolved"

\* await session.executeCode() resolves: execution.end(true), then the next
\* cell, or the handler returns
CellDone(h) ==
    /\ hpc[h] = "awaitExec"
    /\ ExecSettled(h)
    /\ IF hcell[h] < hcells[h]
       THEN StartCell(h, hsess[h], hcell[h] + 1, hcells[h], Append(hresults[h], TRUE))
       ELSE /\ hresults' = [hresults EXCEPT ![h] = Append(@, TRUE)]
            /\ hcall' = [hcall EXCEPT ![h] = 0]
            /\ hpc' = [hpc EXCEPT ![h] = "done"]
            /\ UNCHANGED <<svars, hcell, hcalls, executionOrder>>
    /\ UNCHANGED <<xvars, nsess, nevents, executions, hdoc, hcells, hsess, hkernel,
                   hreported, disposed, docClosed, sessDoc, reused, failSaw>>

\* the sessions the map holds
Stored == {executions[d] : d \in Docs} \ {0}

\* what session.dispose() of every session in S does to the pending connects
RejectAllPending(S) ==
    [k \in DOMAIN connects |->
        IF \E s \in S : /\ wsOwner[s] = k
                         /\ ws[s] = "CONNECTING"
                         /\ connects[k].outcome = "pending"
        THEN [connects[k] EXCEPT !.outcome = "rejected", !.atSettle = "CLOSING"]
        ELSE connects[k]]

\* dispose() of the controller: the notebook controller is disposed (no further
\* executeHandler invocation), every session in the map is disposed, the map
\* is cleared
CtlDispose ==
    /\ ~disposed
    /\ Event
    /\ disposed' = TRUE
    /\ ws' = [s \in Sessions |->
                 IF s \in Stored /\ ws[s] \in {"CONNECTING", "OPEN"}
                 THEN "CLOSING" ELSE ws[s]]
    /\ connects' = RejectAllPending(Stored)
    /\ dropped' = [s \in Sessions |->
                      IF s \in Stored /\ ws[s] # "null" THEN TRUE ELSE dropped[s]]
    /\ executions' = [d \in Docs |-> 0]
    /\ UNCHANGED <<xvars, wsCreated, wsOwner, table, calls, logged, nsess, hpc,
                   hdoc, hcells, hsess, hcell, hcall, hkernel, hreported, hresults,
                   hcalls, executionOrder, docClosed, sessDoc, reused, failSaw>>

\* the editor closes notebook d (and does not reopen it in this run): the
\* controller registers no listener for it
DocClose(d) ==
    /\ ~docClosed[d]
    /\ executions[d] # 0
    /\ Event
    /\ docClosed' = [docClosed EXCEPT ![d] = TRUE]
    /\ UNCHANGED <<xvars, svars, nsess, executions, hpc, hdoc, hcells, hsess,
                   hcell, hcall, hkernel, hreported, hresults, hcalls,
                   executionOrder, disposed,
                   sessDoc, reused, failSaw>>

\* ------------------------------------------------------------- CtlSpec
\* the controller has been constructed; no session exists yet
CtlSpecInit == SessInit /\ CtlInit /\ nsess = 0 /\ XInit

Live == 1..nsess

CtlOpen(s) == s \in Live /\ SessOpen(s) /\ UNCHANGED <<cvars, xvars, nsess, nevents>>
CtlError(s) == s \in Live /\ SessError(s) /\ UNCHANGED <<cvars, xvars, nsess, nevents>>
CtlClose(s) == s \in Live /\ SessClose(s) /\ UNCHANGED <<cvars, xvars, nsess, nevents>>
CtlDeliver(s) == s \in Live /\ Event /\ SessDeliver(s) /\ UNCHANGED <<cvars, xvars, nsess>>

CtlNext ==
    \/ \E h \in Handlers, d \in Docs, n \in 1..MaxCells : Invoke(h, d, n)
    \/ CtlDispose
    \/ \E d \in Docs : DocClose(d)
    \/ \E h \in Handlers :
        \/ KernelStarted(h)
        \/ KernelStartFails(h)
        \/ ConnectFails(h)
        \/ Connected(h)
        \/ NextCell(h)
        \/ CellDone(h)
    \/ \E s \in Sessions :
        \/ CtlOpen(s)
        \/ CtlError(s)
        \/ CtlClose(s)
        \/ CtlDeliver(s)

CtlSpec == CtlSpecInit /\ [][CtlNext]_vars

\* the event loop runs every callback that is ready
CtlFair == CtlSpec /\ WF_vars(CtlNext)


\* ------------------------------------------------------------- handleIOPubMessage
\* the state every other component keeps while this one runs
OutFrame ==
    UNCHANGED <<svars, nsess, nevents, cvars, hvars, mvars, tvars, kvars, nvars>>

Mimes == {"text/plain", "application/json"}

\* a JSON value of content.data: a string, a number or null
Values ==
    {[t |-> "str", s |-> "2", n |-> 0],
     [t |-> "num", s |-> "", n |-> 2],
     [t |-> "null", s |-> "", n |-> 0]}

\* content.data as JSON.parse returns it: keys in insertion order, no key twice
DataSets ==
    {d \in UNION {[1..n -> [key : Mimes, val : Values]] : n \in 0..MaxKeys} :
        \A i, j \in DOMAIN d : i # j => d[i].key # d[j].key}

\* the messages the handler of executeCode passes to onOutput
OutMessages ==
    {[type |-> "stream", name |-> nm, text |-> "hello", data |-> <<>>, tb |-> <<>>] :
        nm \in {"stdout", "stderr", "other"}}
    \cup {[type |-> ty, name |-> "", text |-> "", data |-> d, tb |-> <<>>] :
        ty \in {"execute_result", "display_data"}, d \in DataSets}
    \cup {[type |-> "error", name |-> "", text |-> "", data |-> <<>>, tb |-> tb] :
        tb \in {<<>>, <<"line 1", "line 2">>}}

\* traceback.join('\n')
RECURSIVE Join(_)
Join(tb) ==
    IF tb = <<>> THEN ""
    ELSE IF Len(tb) = 1 THEN tb[1]
    ELSE tb[1] \o "\n" \o Join(Tail(tb))

\* encodeData(): a string is encoded as it is, anything else through
\* JSON.stringify
EncodeData(v) ==
    IF v.t = "str" THEN v.s
    ELSE IF v.t = "num" THEN ToString(v.n)
    ELSE "null"

\* a translation that keeps only the first MIME type of a message
ItemsOfData_FirstOnly(d) ==
    IF d = <<>> THEN <<>> ELSE <<[mime |-> d[1].key, bytes |-> EncodeData(d[1].val)]>>

\* the for-in loop over content.data: one item per key
ItemsOfData(d) ==
    [i \in DOMAIN d |-> [mime |-> d[i].key, bytes |-> EncodeData(d[i].val)]]

\* whether handleIOPubMessage appends an output for the message
Appends(m) ==
    \/ m.type = "stream" /\ m.name \in {"stdout", "stderr"}
    \/ m.type \in {"execute_result", "display_data", "error"}

\* the items of the output handleIOPubMessage appends for the message
ItemsOf(m) ==
    IF m.type = "stream"
    THEN <<[mime |-> IF m.name = "stdout" THEN "text/plain"
                     ELSE "application/vnd.code.notebook.stderr",
            bytes |-> m.text]>>
    ELSE IF m.type = "error"
    THEN <<[mime |-> "application/vnd.code.notebook.error", bytes |-> Join(m.tb)]>>
    ELSE ItemsOfData(m.data)

\* handleIOPubMessage(execution, msg)
HandleIOPubMessage(m) ==
    /\ Len(omsgs) < MaxOutMsgs
    /\ omsgs' = Append(omsgs, m)
    /\ oouts' = IF Appends(m)
                THEN Append(oouts, [from |-> Len(omsgs) + 1, items |-> ItemsOf(m)])
                ELSE oouts
    /\ OutFrame

OutNext == \E m \in OutMessages : HandleIOPubMessage(m)

OutSpecInit == SessInit /\ CtlInit /\ nsess = 0 /\ XInit

OutSpec == OutSpecInit /\ [][OutNext]_vars


\* ------------------------------------------------------------- HttpClient
HttpFrame ==
    UNCHANGED <<svars, nsess, nevents, cvars, ovars, mvars, tvars, kvars, nvars>>

\* response.data of an error response: nothing (undefined or ''), or an object
\* without a `status` field (status 0 here), or with one
Bodies(st) ==
    {[kind |-> "empty", status |-> 0],
     [kind |-> "object", status |-> 0],
     [kind |-> "object", status |-> st]}

\* what axios.request can settle with: a 2xx response, no response at all, or
\* an error response
OkResponse == [kind |-> "ok", status |-> 200, body |-> [kind |-> "object", status |-> 0]]

ErrorResponses ==
    {[kind |-> "net", status |-> 0, body |-> [kind |-> "empty", status |-> 0]]}
    \cup {[kind |-> "http", status |-> st, body |-> b] :
             st \in {404, 500}, b \in Bodies(404) \cup Bodies(500)}

\* handleError(), the response interceptor: the ApiError it throws carries the
\* HTTP status in `status` and error.response.data in `response`
HandleError(r) ==
    IF r.kind = "http"
    THEN [status |-> r.status, response |-> r.body]
    ELSE [status |-> 0, response |-> [kind |-> "empty", status |-> 0]]

\* shouldRetry(error): `!error.response`, else error.response.status in 5xx
ShouldRetry(e) ==
    IF e.response.kind = "empty" THEN TRUE
    ELSE e.response.status >= 500 /\ e.response.status < 600

\* `this.config.maxRetries || 3`
RetryLimit == IF hcfg = 0 THEN DefaultRetries ELSE hcfg

\* get/post/put/patch/delete call request() with retryCount = 0
HttpCall ==
    /\ hphase = "idle"
    /\ hphase' = "inflight"
    /\ UNCHANGED <<hcfg, hretry, hsends, herr>>
    /\ HttpFrame

\* axios.request resolves: request() returns the response
HttpResponds ==
    /\ hphase = "inflight"
    /\ hsends' = Append(hsends, OkResponse)
    /\ hphase' = "returned"
    /\ UNCHANGED <<hcfg, hretry, herr>>
    /\ HttpFrame

\* axios.request rejects: the interceptor turns the error into an ApiError and
\* the catch block of request() either starts the backoff delay or rethrows
HttpFails(r) ==
    /\ hphase = "inflight"
    /\ hsends' = Append(hsends, r)
    /\ IF hretry < RetryLimit /\ ShouldRetry(HandleError(r))
       THEN hphase' = "backoff" /\ UNCHANGED herr
       ELSE hphase' = "thrown" /\ herr' = HandleError(r)
    /\ UNCHANGED <<hcfg, hretry>>
    /\ HttpFrame

\* the delay is over: request() calls itself with retryCount + 1
HttpRetries ==
    /\ hphase = "backoff"
    /\ hretry' = hretry + 1
    /\ hphase' = "inflight"
    /\ UNCHANGED <<hcfg, hsends, herr>>
    /\ HttpFrame

HttpNext ==
    \/ HttpCall
    \/ HttpResponds
    \/ \E r \in ErrorResponses : HttpFails(r)
    \/ HttpRetries

\* a client constructed with any configured maxRetries
HttpSpecInit ==
    /\ SessInit /\ CtlInit /\ nsess = 0 /\ OutInit /\ MetInit /\ StoreInit
    /\ KcmInit /\ ConnInit
    /\ \E n \in 0..MaxCfgRetries : HttpInit(n)

HttpSpec == HttpSpecInit /\ [][HttpNext]_vars


\* --------------------------------------------------------- MetricsManager
MetFrame ==
    UNCHANGED <<svars, nsess, nevents, cvars, ovars, hvars, tvars, kvars, nvars>>

\* consecutive failures poll() tolerates
ErrLimit == 5

\* values of the setting refreshInterval.metrics
Intervals == {0, 5}

\* `error.response?.status === 404`, on the ApiError HttpClient throws
Is404(e) == e.response.kind # "empty" /\ e.response.status = 404

\* poll() up to its await, on the state [api, supported]: nothing when the api
\* is null or the endpoint is unsupported, else one getMetrics() request of the
\* api's start()
PollIssued(api, supported) == api # 0 /\ supported

\* stop(): clearInterval(this.timer), timer = null, api = null
MetStopped ==
    /\ mactive' = mactive \ {mtimer}
    /\ mtimer' = 0
    /\ mapi' = 0

\* start(httpClient): stop(), a new api, the first poll(), then the timer when
\* the interval is positive
MetStart(iv) ==
    /\ mgen < MaxStarts
    /\ mpolls < MaxPolls
    /\ mgen' = mgen + 1
    /\ mapi' = mgen + 1
    /\ msupported' = TRUE
    /\ merrors' = 0
    /\ mflight' = [mflight EXCEPT ![mgen + 1] = @ + 1]
    /\ mpolls' = mpolls + 1
    /\ IF iv > 0
       THEN mtimer' = mgen + 1 /\ mactive' = (mactive \ {mtimer}) \cup {mgen + 1}
       ELSE mtimer' = 0 /\ mactive' = mactive \ {mtimer}
    /\ msaw404' = FALSE
    /\ mafter404' = 0
    /\ mstreak' = 0
    /\ MetFrame

\* stop() called from outside (disconnect, dispose)
MetStop ==
    /\ mgen > 0
    /\ mapi # 0
    /\ MetStopped
    /\ UNCHANGED <<msupported, merrors, mgen, mflight, mpolls, msaw404, mafter404,
                   mstreak>>
    /\ MetFrame

\* the interval timer t fires: poll()
MetTick(t) ==
    /\ t \in mactive
    /\ mpolls < MaxPolls
    /\ IF PollIssued(mapi, msupported)
       THEN /\ mflight' = [mflight EXCEPT ![mapi] = @ + 1]
            /\ mpolls' = mpolls + 1
            /\ mafter404' = IF msaw404 THEN mafter404 + 1 ELSE mafter404
       ELSE UNCHANGED <<mflight, mpolls, mafter404>>
    /\ UNCHANGED <<mtimer, mactive, mapi, msupported, merrors, mgen, msaw404,
                   mstreak>>
    /\ MetFrame

\* a getMetrics() of start() g resolves: the rest of the try block
MetPollOk(g) ==
    /\ mflight[g] > 0
    /\ mflight' = [mflight EXCEPT ![g] = @ - 1]
    /\ merrors' = 0
    /\ mstreak' = 0
    /\ UNCHANGED <<mtimer, mactive, mapi, msupported, mgen, mpolls, msaw404, mafter404>>
    /\ MetFrame

\* a getMetrics() of start() g rejects with the ApiError of response r: the
\* catch block
MetPollFails(g, r) ==
    /\ mflight[g] > 0
    /\ mflight' = [mflight EXCEPT ![g] = @ - 1]
    /\ msaw404' = (msaw404 \/ (r.kind = "http" /\ r.status = 404))
    /\ mstreak' = IF r.kind = "http" /\ r.status = 404 THEN 0 ELSE mstreak + 1
    /\ IF Is404(HandleError(r))
       THEN msupported' = FALSE /\ MetStopped /\ UNCHANGED merrors
       ELSE /\ merrors' = merrors + 1
            /\ IF merrors + 1 > ErrLimit
               THEN MetStopped
               ELSE UNCHANGED <<mtimer, mactive, mapi>>
            /\ UNCHANGED msupported
    /\ UNCHANGED <<mgen, mpolls, mafter404>>
    /\ MetFrame

MetNext ==
    \/ \E iv \in Intervals : MetStart(iv)
    \/ MetStop
    \/ \E t \in 1..MaxStarts : MetTick(t)
    \/ \E g \in 1..MaxStarts : MetPollOk(g)
    \/ \E g \in 1..MaxStarts, r \in ErrorResponses : MetPollFails(g, r)

MetSpecInit ==
    /\ SessInit /\ CtlInit /\ nsess = 0 /\ XInit

MetSpec == MetSpecInit /\ [][MetNext]_vars


\* ------------------------------------------ stored tokens and server records
StoreFrame ==
    UNCHANGED <<svars, nsess, nevents, cvars, ovars, hvars, mvars, kvars, nvars>>

Hubs == 1..NumHubs

\* the key of SecretStorage.TOKEN_KEY
LegacyKey == 0

\* entries addRecentServer keeps
RecentCap == 10

Range(q) == {q[i] : i \in DOMAIN q}

\* SecretStorageManager.saveToken(token, url) on the storage sec: the token
\* goes to TOKEN_KEY and to the key of the URL
SaveToken(sec, tok, u) == [sec EXCEPT ![LegacyKey] = tok, ![u] = tok]

\* SecretStorageManager.deleteToken(url) with a URL: only the key of the URL
DeleteToken(sec, u) == [sec EXCEPT ![u] = 0]

\* tryMigrateLegacyToken(url): the value of TOKEN_KEY is copied to the key of
\* the URL when that key has none
MigrateLegacy(sec, u) ==
    IF sec[u] = 0 /\ sec[LegacyKey] # 0
    THEN [sec EXCEPT ![u] = sec[LegacyKey]]
    ELSE sec

\* getTokenForHub(url) on storage sec and settings st
GetTokenForHub(sec, st, u) ==
    IF tinsecure /\ st[u] # 0 THEN st[u] ELSE sec[u]

\* saveTokenForHub(url, token): <<storage, settings>> afterwards
SaveTokenForHub(sec, st, u, tok) ==
    IF tinsecure
    THEN <<sec, [st EXCEPT ![u] = tok]>>
    ELSE <<SaveToken(sec, tok, u), st>>

\* deleteTokenForHub(url): <<storage, settings>> afterwards
DeleteTokenForHub(sec, st, u) == <<DeleteToken(sec, u), [st EXCEPT ![u] = 0]>>

RECURSIVE Without(_, _)
\* recent.filter(s => s !== url)
Without(q, u) ==
    IF q = <<>> THEN <<>>
    ELSE IF Head(q) = u THEN Without(Tail(q), u)
    ELSE <<Head(q)>> \o Without(Tail(q), u)

\* addRecentServer(url): moved to the front, at most RecentCap entries kept
AddRecent(q, u) ==
    LET r == <<u>> \o Without(q, u)
    IN  IF Len(r) > RecentCap THEN SubSeq(r, 1, RecentCap) ELSE r

\* how the connection attempt of connectServer can end: connected, connected
\* after a profile key was typed in and stored, 403 with the user declining to
\* type a new token, any other failure
ConnectOutcomes == {"ok", "profile", "forbidden", "failed"}

\* connectServer for URL u: the URL is saved, the token is looked up and, when
\* there is none, typed in (typed = TRUE) and saved, or the prompt is dismissed;
\* then the connection is attempted
StoreConnect(u, typed, res) ==
    LET tok   == GetTokenForHub(tsecret, tsetting, u)
        saved == IF tok = 0
                 THEN SaveTokenForHub(tsecret, tsetting, u, ntok + 1)
                 ELSE <<tsecret, tsetting>>
    IN  /\ tserver' = u
        /\ IF tok = 0 /\ ~typed
           THEN UNCHANGED <<tsecret, tsetting, trecent, tprofile, ntok, towner,
                            tsent>>
           ELSE /\ tok = 0 => ntok < MaxTokens
                /\ ntok' = IF tok = 0 THEN ntok + 1 ELSE ntok
                /\ towner' = IF tok = 0 THEN Append(towner, u) ELSE towner
                /\ tsent' = tsent \cup {<<u, IF tok = 0 THEN ntok + 1 ELSE tok>>}
                /\ IF res = "forbidden"
                   THEN /\ tsecret' = DeleteTokenForHub(saved[1], saved[2], u)[1]
                        /\ tsetting' = DeleteTokenForHub(saved[1], saved[2], u)[2]
                   ELSE tsecret' = saved[1] /\ tsetting' = saved[2]
                /\ trecent' = IF res \in {"ok", "profile"}
                              THEN AddRecent(trecent, u) ELSE trecent
                /\ tprofile' = IF res = "profile" THEN tprofile \cup {u} ELSE tprofile
        /\ UNCHANGED <<tuseropts, tinsecure>>
        /\ StoreFrame

\* deleteServer for URL u, picked among the saved and the recent URLs and
\* confirmed: every record of u is removed
StoreDeleteServer(u) ==
    /\ u = tserver \/ u \in Range(trecent)
    /\ trecent' = Without(trecent, u)
    /\ tprofile' = tprofile \ {u}
    /\ tuseropts' = tuseropts \ {u}
    /\ tsecret' = DeleteTokenForHub(tsecret, tsetting, u)[1]
    /\ tsetting' = DeleteTokenForHub(tsecret, tsetting, u)[2]
    /\ tserver' = IF tserver = u THEN 0 ELSE tserver
    /\ UNCHANGED <<tinsecure, ntok, towner, tsent>>
    /\ StoreFrame

\* tryAutoConnect, at activation, up to its prompt: the legacy token is
\* migrated to the saved URL
StoreAutoConnect ==
    /\ tserver # 0
    /\ tsecret' = MigrateLegacy(tsecret, tserver)
    /\ UNCHANGED <<tsetting, trecent, tprofile, tuseropts, tserver, tinsecure, ntok,
                   towner, tsent>>
    /\ StoreFrame

\* the user changes the setting allowInsecureTokenStorage
StoreSetInsecure(b) ==
    /\ tinsecure # b
    /\ tinsecure' = b
    /\ UNCHANGED <<tsecret, tsetting, trecent, tprofile, tuseropts, tserver, ntok,
                   towner, tsent>>
    /\ StoreFrame

\* the user writes an entry for URL u in the setting userOptionsByServer
StoreSetUserOptions(u) ==
    /\ u \notin tuseropts
    /\ tuseropts' = tuseropts \cup {u}
    /\ UNCHANGED <<tsecret, tsetting, trecent, tprofile, tserver, tinsecure, ntok,
                   towner, tsent>>
    /\ StoreFrame

StoreNext ==
    \/ \E u \in Hubs, typed \in BOOLEAN, res \in ConnectOutcomes :
          StoreConnect(u, typed, res)
    \/ \E u \in Hubs : StoreDeleteServer(u)
    \/ StoreAutoConnect
    \/ \E b \in BOOLEAN : StoreSetInsecure(b)
    \/ \E u \in Hubs : StoreSetUserOptions(u)

StoreSpecInit ==
    /\ SessInit /\ CtlInit /\ nsess = 0 /\ XInit

StoreSpec == StoreSpecInit /\ [][StoreNext]_vars


\* ------------------------------------------------ KernelControllerManager
KcmFrame ==
    UNCHANGED <<svars, nsess, nevents, cvars, ovars, hvars, mvars, tvars, nvars>>

KernelSpecs == 1..NumSpecs

RECURSIVE InOrder(_)
\* Object.entries(specs.kernelspecs), in the order of the object's keys
InOrder(S) ==
    IF S = {} THEN <<>>
    ELSE LET x == CHOOSE x \in S : \A y \in S : x <= y
         IN  <<x>> \o InOrder(S \ {x})

\* dispose(): c.dispose() for every controller of this.controllers
DisposedAll ==
    IF kall = <<>> THEN <<>>
    ELSE [i \in DOMAIN kall |->
             IF i \in kheld THEN [kall[i] EXCEPT !.disposed = TRUE] ELSE kall[i]]

RECURSIVE Created(_, _)
\* the controllers the loop of call r constructs for the kernelspecs q
Created(q, r) ==
    IF q = <<>> THEN <<>>
    ELSE <<[spec |-> Head(q), by |-> r, disposed |-> FALSE]>> \o Created(Tail(q), r)

\* refreshControllers(): dispose(), then the kernelspec request is awaited
KcmRefresh ==
    /\ Len(kref) < MaxRefresh
    /\ kall' = DisposedAll
    /\ kheld' = {}
    /\ kexpect' = {}
    /\ kref' = Append(kref, "await")
    /\ KcmFrame

\* the kernelspec request of call r resolves with the kernelspecs S: one
\* controller per kernelspec is created and pushed to this.controllers
KcmSpecsArrive(r, S) ==
    /\ r \in DOMAIN kref /\ kref[r] = "await"
    /\ kall' = kall \o Created(InOrder(S), r)
    /\ kheld' = kheld \cup (Len(kall) + 1 .. Len(kall) + Cardinality(S))
    /\ kexpect' = S
    /\ kref' = [kref EXCEPT ![r] = "done"]
    /\ KcmFrame

\* the kernelspec request of call r rejects: the catch block reports it
KcmSpecsFail(r) ==
    /\ r \in DOMAIN kref /\ kref[r] = "await"
    /\ kref' = [kref EXCEPT ![r] = "failed"]
    /\ UNCHANGED <<kall, kheld, kexpect>>
    /\ KcmFrame

\* dispose() of the manager, called by disconnectServer
KcmDispose ==
    /\ kheld # {}
    /\ kall' = DisposedAll
    /\ kheld' = {}
    /\ kexpect' = {}
    /\ UNCHANGED kref
    /\ KcmFrame

KcmNext ==
    \/ KcmRefresh
    \/ \E r \in 1..MaxRefresh, S \in SUBSET KernelSpecs : KcmSpecsArrive(r, S)
    \/ \E r \in 1..MaxRefresh : KcmSpecsFail(r)
    \/ KcmDispose

KcmSpecInit ==
    /\ SessInit /\ CtlInit /\ nsess = 0 /\ XInit

KcmSpec == KcmSpecInit /\ [][KcmNext]_vars


\* -------------------------------------------- connectServer, disconnectServer
\* The storage side of connectServer (tokens, recent list, profile) is
\* StoreConnect; these actions follow the same call through its awaits and
\* keep the connection state.
ConnFrame ==
    UNCHANGED <<svars, nsess, nevents, cvars, ovars, hvars, mvars, kvars,
                tsecret, tsetting, trecent, tprofile, tuseropts, tinsecure, ntok,
                towner, tsent>>

ConnCalls == 1..MaxOverlap

\* no connectServer call is running
ConnQuiet == \A c \in ConnCalls : cpc[c] = "idle"

\* call c returns
ConnReturns(c, how) ==
    /\ cpc' = [cpc EXCEPT ![c] = "idle"]
    /\ cend' = [cend EXCEPT ![c] = [how |-> how, at |-> cpc[c]]]

\* call c goes on to its next await
ConnGoes(c, to) ==
    /\ cpc' = [cpc EXCEPT ![c] = to]
    /\ UNCHANGED cend

\* the catch block of connectServer: the error is shown and disconnectServer()
\* called, which resets the connection state and awaits the context update
ConnFailed(c) ==
    /\ conn' = Disconnected
    /\ ConnGoes(c, "closing")
    /\ UNCHANGED <<curl, tserver, nconn>>
    /\ ConnFrame

\* the await of disconnectServer() resolves: the call returns
ConnClosed(c) ==
    /\ cpc[c] = "closing"
    /\ ConnReturns(c, "failed")
    /\ UNCHANGED <<conn, curl, tserver, nconn>>
    /\ ConnFrame

\* connectServer(arg) is invoked with a target URL (target = 0: none; fresh:
\* the argument asks for a new connection): an early return when hubApi is set
\* and the target is the saved URL; otherwise metrics are stopped, the context
\* key is set to false, and the URL is asked for unless the target or the
\* saved URL gives it
ConnStart(c, target, fresh) ==
    /\ cpc[c] = "idle"
    /\ nconn < MaxConnects
    /\ nconn' = nconn + 1
    /\ IF conn.hub # 0 /\ target # 0 /\ tserver = target
       THEN /\ ConnReturns(c, "already")
            /\ UNCHANGED <<conn, curl, tserver>>
       ELSE /\ conn' = [conn EXCEPT !.metrics = FALSE, !.ctx = FALSE]
            /\ IF target # 0
               THEN /\ curl' = [curl EXCEPT ![c] = target]
                    /\ tserver' = target
                    /\ ConnGoes(c, "token")
               ELSE IF tserver # 0 /\ ~fresh
               THEN /\ curl' = [curl EXCEPT ![c] = tserver]
                    /\ UNCHANGED tserver
                    /\ ConnGoes(c, "token")
               ELSE /\ curl' = [curl EXCEPT ![c] = 0]
                    /\ UNCHANGED tserver
                    /\ ConnGoes(c, "url")
    /\ ConnFrame

\* the URL input box is answered: the URL is saved, the token is looked up
ConnUrlEntered(c, u) ==
    /\ cpc[c] = "url"
    /\ curl' = [curl EXCEPT ![c] = u]
    /\ tserver' = u
    /\ ConnGoes(c, "token")
    /\ UNCHANGED <<conn, nconn>>
    /\ ConnFrame

\* an input box (URL or token) is dismissed: the call returns
ConnCancelled(c) ==
    /\ cpc[c] \in {"url", "token"}
    /\ ConnReturns(c, "cancelled")
    /\ UNCHANGED <<conn, curl, tserver, nconn>>
    /\ ConnFrame

\* a token was found or typed in: hubApi is built and getCurrentUser awaited
ConnTokenReady(c) ==
    /\ cpc[c] = "token"
    /\ conn' = [conn EXCEPT !.hub = curl[c]]
    /\ ConnGoes(c, "auth")
    /\ UNCHANGED <<curl, tserver, nconn>>
    /\ ConnFrame

\* getCurrentUser resolves: currentUser is set and hubApi.getServerStatus is
\* called, which throws when hubApi is null by now
ConnAuthenticated(c) ==
    /\ cpc[c] = "auth"
    /\ IF conn.hub = 0
       THEN ConnFailed(c)
       ELSE /\ conn' = [conn EXCEPT !.user = TRUE]
            /\ ConnGoes(c, "server")
            /\ UNCHANGED <<curl, tserver, nconn>>
            /\ ConnFrame

\* a request of the connection loop rejects: with a 403 and a new token typed
\* in (retry) the loop starts again with a new hubApi; otherwise the error
\* reaches the catch block of connectServer
ConnRequestFails(c, retry) ==
    /\ cpc[c] \in {"auth", "server", "recent"}
    /\ IF retry
       THEN /\ conn' = [conn EXCEPT !.hub = curl[c]]
            /\ ConnGoes(c, "auth")
            /\ UNCHANGED <<curl, tserver, nconn>>
            /\ ConnFrame
       ELSE ConnFailed(c)

\* the user's server is ready (at once or after it was started):
\* hubApi.getUserServerUrl is called, which throws when hubApi is null by now;
\* the clients are built and handed to the views, refreshControllers is awaited
ConnServerReady(c) ==
    /\ cpc[c] = "server"
    /\ IF conn.hub = 0
       THEN ConnFailed(c)
       ELSE /\ conn' = [conn EXCEPT !.apis = TRUE]
            /\ ConnGoes(c, "refresh")
            /\ UNCHANGED <<curl, tserver, nconn>>
            /\ ConnFrame

\* refreshControllers returns (it reports its own errors): metricsManager is
\* started, the context key set to true, addRecentServer awaited
ConnRefreshed(c) ==
    /\ cpc[c] = "refresh"
    /\ conn' = [conn EXCEPT !.ctls = TRUE, !.metrics = TRUE, !.ctx = TRUE]
    /\ ConnGoes(c, "recent")
    /\ UNCHANGED <<curl, tserver, nconn>>
    /\ ConnFrame

\* addRecentServer resolves: the call returns
ConnConnected(c) ==
    /\ cpc[c] = "recent"
    /\ ConnReturns(c, "connected")
    /\ UNCHANGED <<conn, curl, tserver, nconn>>
    /\ ConnFrame

\* the command disconnectServer
ConnDisconnect ==
    /\ conn # Disconnected
    /\ conn' = Disconnected
    /\ UNCHANGED <<cpc, curl, cend, tserver, nconn>>
    /\ ConnFrame

ConnNext ==
    \/ \E c \in ConnCalls, target \in {0} \cup Hubs, fresh \in BOOLEAN :
          ConnStart(c, target, fresh)
    \/ \E c \in ConnCalls, u \in Hubs : ConnUrlEntered(c, u)
    \/ \E c \in ConnCalls : ConnCancelled(c)
    \/ \E c \in ConnCalls : ConnTokenReady(c)
    \/ \E c \in ConnCalls : ConnAuthenticated(c)
    \/ \E c \in ConnCalls, retry \in BOOLEAN : ConnRequestFails(c, retry)
    \/ \E c \in ConnCalls : ConnServerReady(c)
    \/ \E c \in ConnCalls : ConnRefreshed(c)
    \/ \E c \in ConnCalls : ConnConnected(c)
    \/ \E c \in ConnCalls : ConnClosed(c)
    \/ ConnDisconnect

ConnSpecInit ==
    /\ SessInit /\ CtlInit /\ nsess = 0 /\ XInit

ConnSpec == ConnSpecInit /\ [][ConnNext]_vars


\* ------------------------------------------------------------- properties
Last(sq) == sq[Len(sq)]

\* the idle status that ends request c has been delivered
Terminated(c) ==
    /\ calls[c].seen # <<>>
    /\ Last(calls[c].seen).type = "status"
    /\ Last(calls[c].seen).state = "idle"

OutputsOf(sq) == SelectSeq(sq, LAMBDA f : f.type \in OutputTypes)

NonStatusOf(sq) == SelectSeq(sq, LAMBDA f : f.type # "status")

\* the executeCode calls that sent their request
SentCalls == {c \in DOMAIN calls : calls[c].sent /\ calls[c].kind = "execute"}

\* C1: onOutput receives the stream/execute_result/display_data/error messages
\* of its request in the order the transport delivered them, and the outcome is
\* resolved only once the terminating idle status was delivered, with every
\* output delivered before it already passed to onOutput.
C1_OutputOrder ==
    \A c \in SentCalls :
        /\ calls[c].sink = OutputsOf(calls[c].seen)
        /\ calls[c].outcome = "resolved" => Terminated(c)

C1_Witness ==
    \E c \in SentCalls : calls[c].outcome = "resolved" /\ calls[c].sink # <<>>

C1_WitnessOrder ==
    \E c \in SentCalls :
        Len(calls[c].sink) >= 2 /\ calls[c].sink[1] # calls[c].sink[2]

\* C2 as stated: when the outcome resolves, onOutput was invoked once per
\* non-status message (of any type) with the request's id as parent.
C2_CountsAllNonStatus ==
    \A c \in SentCalls :
        calls[c].outcome = "resolved" =>
            Len(calls[c].sink) = Len(NonStatusOf(calls[c].seen))

\* C2 amended: when the outcome resolves, onOutput was invoked once per stream,
\* execute_result, display_data or error message with the request's id as
\* parent delivered before the terminating idle status.
C2_CountsOutputs ==
    \A c \in SentCalls :
        calls[c].outcome = "resolved" =>
            Len(calls[c].sink) =
                Cardinality({i \in DOMAIN calls[c].seen :
                                calls[c].seen[i].type \in OutputTypes})

C2_Witness ==
    \E c \in SentCalls : calls[c].outcome = "resolved" /\ Len(calls[c].seen) >= 2

C5_ErrorDoesNotTerminate ==
    \A c \in SentCalls :
        /\ calls[c].outcome # "rejected"
        /\ Terminated(c) => calls[c].outcome = "resolved"
        /\ ~Terminated(c) =>
              /\ calls[c].outcome = "pending"
              /\ c \in table[calls[c].sess]
        /\ \A i \in DOMAIN calls[c].seen :
              calls[c].seen[i].type = "error" =>
                  \E j \in DOMAIN calls[c].sink : calls[c].sink[j] = calls[c].seen[i]

C5_Witness ==
    \E c \in SentCalls :
        /\ calls[c].outcome = "resolved"
        /\ \E i \in DOMAIN calls[c].sink : calls[c].sink[i].type = "error"

C5_WitnessPending ==
    \E c \in SentCalls :
        /\ calls[c].outcome = "pending"
        /\ \E i \in DOMAIN calls[c].sink : calls[c].sink[i].type = "error"

\* C9 as stated: a connect() call is resolved only with the transport open,
\* and rejected only by an error before the transport opened.
C9_ResolvesOnlyWhenOpen ==
    /\ \A k \in DOMAIN connects :
          connects[k].outcome = "resolved" => connects[k].atSettle = "OPEN"
    /\ \A s \in Sessions :
          (wsOwner[s] # 0 /\ ws[s] \in {"CLOSING", "CLOSED"}) =>
              connects[wsOwner[s]].outcome # "pending"

\* the part of C9 the code keeps: the connect() call that created the transport
\* is resolved by 'open' and rejected by an error before it
C9_CreatingCallWaits ==
    \A s \in Sessions :
        wsOwner[s] # 0 =>
            /\ connects[wsOwner[s]].outcome = "resolved" =>
                  connects[wsOwner[s]].atSettle = "OPEN"
            /\ ws[s] \in {"CLOSING", "CLOSED"} =>
                  connects[wsOwner[s]].outcome # "pending"
            /\ ws[s] = "CONNECTING" => connects[wsOwner[s]].outcome = "pending"

ConnectsOn(s) == {k \in DOMAIN connects : connects[k].sess = s}

\* C10: as long as no close, error or dispose has happened on a session, all
\* its connect() calls together have created exactly one transport.
C10_OneTransport ==
    \A s \in Sessions :
        ~dropped[s] => wsCreated[s] = IF ConnectsOn(s) = {} THEN 0 ELSE 1

C10_Witness ==
    \E s \in Sessions :
        ~dropped[s] /\ Cardinality(ConnectsOn(s)) >= 2 /\ ws[s] = "OPEN"

\* the last call made
NewCall == calls'[Len(calls')]

\* a step in which a call of this kind is made on a session whose transport is
\* not open
RefusedStep(kind) ==
    /\ Len(calls') = Len(calls) + 1
    /\ NewCall.kind = kind
    /\ ws[NewCall.sess] # "OPEN"

\* C11: executeCode invoked while the transport is not open rejects, sends
\* nothing and leaves the table and every other call as they were.
C11_ExecuteNotOpenRejects ==
    [][RefusedStep("execute") =>
          /\ NewCall.outcome = "rejected"
          /\ ~NewCall.sent
          /\ table' = table
          /\ \A c \in DOMAIN calls : calls'[c] = calls[c]]_vars

C11_Witness ==
    \E c, e \in DOMAIN calls :
        /\ calls[c].kind = "execute" /\ calls[c].outcome = "rejected"
        /\ calls[e].kind = "execute" /\ calls[e].outcome = "rejected"
        /\ ws[calls[c].sess] = "CONNECTING"
        /\ ws[calls[e].sess] = "CLOSING"

\* C12: requestComplete invoked while the transport is not open returns null:
\* it does not throw, sends nothing and leaves the table and every other call
\* as they were.
C12_CompleteNotOpenReturnsNull ==
    [][RefusedStep("complete") =>
          /\ NewCall.outcome = "resolved"
          /\ NewCall.result = 0
          /\ ~NewCall.sent
          /\ table' = table
          /\ \A c \in DOMAIN calls : calls'[c] = calls[c]]_vars

C12_Witness ==
    \E c \in DOMAIN calls :
        /\ calls[c].kind = "complete"
        /\ calls[c].result = 0
        /\ ws[calls[c].sess] = "CLOSED"
        /\ table[calls[c].sess] # {}

\* the requestComplete calls that sent their request
SentCompletes == {c \in DOMAIN calls : calls[c].sent /\ calls[c].kind = "complete"}

\* C13: a requestComplete is resolved only by a complete_reply that carries
\* its request id, and with the content of that reply; as long as no such
\* reply was delivered it is pending, with no result, and registered.
C13_OnlyMatchingCompleteReply ==
    \A c \in SentCompletes :
        /\ calls[c].outcome # "rejected"
        /\ calls[c].outcome = "resolved" =>
              /\ calls[c].seen # <<>>
              /\ Last(calls[c].seen).type = "complete_reply"
              /\ Last(calls[c].seen).parent = c
              /\ calls[c].result = Last(calls[c].seen).content
              /\ calls[c].result = c
        /\ (\A i \in DOMAIN calls[c].seen :
                calls[c].seen[i].type # "complete_reply") =>
              /\ calls[c].outcome = "pending"
              /\ calls[c].result = -1
              /\ c \in table[calls[c].sess]

C13_Witness ==
    \E c \in SentCompletes :
        calls[c].outcome = "resolved" /\ Len(calls[c].seen) >= 2

C13_WitnessPending ==
    \E c \in SentCompletes :
        /\ calls[c].outcome = "pending"
        /\ \E i \in DOMAIN calls[c].seen : calls[c].seen[i].type = "execute_reply"
        /\ ws[calls[c].sess] = "CLOSED"

\* C14: a step that makes no call and delivers no message matching a request
\* that is waiting changes no call and no table.
C14_UnmatchedIsNoOp ==
    [][(/\ Len(calls') = Len(calls)
        /\ \A c \in DOMAIN calls : calls'[c].seen = calls[c].seen)
       => (calls' = calls /\ table' = table)]_vars

\* frames delivered so far to a session driven through its API
Delivered == nevents - Len(connects) - Len(calls)

C14_Witness ==
    /\ Len(calls) = 1
    /\ calls[1].sent /\ calls[1].outcome = "pending" /\ calls[1].seen = <<>>
    /\ 1 \in table[calls[1].sess]
    /\ \A s \in Sessions : logged[s] = 0
    /\ Delivered >= 2

\* the terminal message of request c has been delivered
Ended(c) == calls[c].seen # <<>> /\ Ends(calls[c].kind, Last(calls[c].seen))

AllSent == {c \in DOMAIN calls : calls[c].sent}

\* C15: a message id is in the table of its session exactly when its request
\* was sent and its outcome is pending, which is exactly until its terminal
\* message is handled; when every sent request has seen its terminal message
\* the tables are empty.
C15_TableIsPendingSent ==
    /\ \A s \in Sessions :
          table[s] = {c \in AllSent : calls[c].sess = s /\ calls[c].outcome = "pending"}
    /\ \A c \in AllSent : Ended(c) <=> calls[c].outcome = "resolved"
    /\ (\A c \in AllSent : Ended(c)) => \A s \in Sessions : table[s] = {}

C15_Witness ==
    \E c, e \in AllSent :
        /\ calls[c].kind = "execute" /\ calls[e].kind = "complete"
        /\ calls[c].sess = calls[e].sess
        /\ c < e
        /\ Ended(e)
        /\ table[calls[c].sess] = {c}

C15_WitnessEmpty ==
    \E c \in AllSent : \A e \in AllSent : Ended(e) /\ table[calls[e].sess] = {}

\* the executeCode call handler h made for its i-th cell
CallOf(h, i) == calls[hcalls[h][i].id]

\* C16: a cell is ended as failed exactly when its executeCode rejected; the
\* step that ends it removes no session from the map; the handler goes on to
\* the remaining cells of the batch, and every executeCode of the batch is made
\* on the handler's session.
C16_RejectedCellKeepsSession ==
    /\ [](\A h \in Handlers :
             /\ \A i \in DOMAIN hresults[h] :
                   ~hresults[h][i] <=> CallOf(h, i).outcome = "rejected"
             /\ \A i \in DOMAIN hcalls[h] : CallOf(h, i).sess = hsess[h]
             /\ (hpc[h] = "done" /\ ~hreported[h]) => Len(hresults[h]) = hcells[h])
    /\ [][\A h \in Handlers :
             (Len(hresults'[h]) > Len(hresults[h]) /\ ~Last(hresults'[h])) =>
                 /\ hsess'[h] = hsess[h] \/ hpc[h] = "idle"
                 /\ \A d \in Docs : executions[d] # 0 => executions'[d] # 0]_vars

C16_Witness ==
    \E h \in Handlers :
        /\ Len(hresults[h]) = 2
        /\ ~hresults[h][1]
        /\ executions[hdoc[h]] = hsess[h]
        /\ CallOf(h, 2).sess = hsess[h]

\* C17 as stated: once dispose() of the controller has run, the map is empty
\* and the transport of every session the controller created is closing or
\* closed.
C17_DisposeClosesEverySession ==
    disposed =>
        /\ \A d \in Docs : executions[d] = 0
        /\ \A s \in Live : ws[s] \in {"CLOSING", "CLOSED"}

\* what dispose() does guarantee: the sessions that were in the map when it
\* ran are closing or closed from then on
C17_DisposeClosesStored ==
    [][\A s \in Sessions :
          (~disposed /\ disposed' /\ s \in Stored) =>
              /\ ws'[s] \in {"CLOSING", "CLOSED"}
              /\ executions' = [d \in Docs |-> 0]]_vars

\* C18 as stated: once its notebook is closed, a session is not in the map and
\* its transport is closing or closed.
C18_ClosedDocDestroysSession ==
    \A d \in Docs :
        docClosed[d] =>
            /\ executions[d] = 0
            /\ \A s \in Live : sessDoc[s] = d => ws[s] \in {"CLOSING", "CLOSED"}

\* what the code does instead: the entry of a closed notebook stays in the map
\* until the controller is disposed
C18_EntryStaysUntilDispose ==
    [][\A d \in Docs :
          (docClosed[d] /\ executions[d] # 0 /\ ~disposed') => executions'[d] # 0]_vars

\* C19: the executeCode calls of one invocation are one per cell, in batch
\* order; the call of a cell is made only when the calls of all earlier cells
\* have completed, so at most one is pending; a batch that ran to its end made
\* one call per cell.
C19_OneRequestAtATime ==
    \A h \in Handlers :
        /\ Len(hcalls[h]) = hcell[h]
        /\ Len(hcalls[h]) <= hcells[h]
        /\ \A i \in DOMAIN hcalls[h] :
              /\ hcalls[h][i].cell = i
              /\ CallOf(h, i).kind = "execute"
              /\ \A j \in DOMAIN hcalls[h] :
                    i < j => /\ hcalls[h][i].id < hcalls[h][j].id
                             /\ CallOf(h, i).outcome # "pending"
        /\ Cardinality({i \in DOMAIN hcalls[h] : CallOf(h, i).outcome = "pending"}) <= 1
        /\ (hpc[h] = "done" /\ ~hreported[h]) => Len(hcalls[h]) = hcells[h]

C19_Witness ==
    \E h \in Handlers :
        /\ Len(hcalls[h]) = 2
        /\ CallOf(h, 1).outcome = "resolved"
        /\ CallOf(h, 1).sink # <<>>
        /\ CallOf(h, 2).outcome = "pending"

\* C20: a frame that fails to parse is logged and changes no call, no table and
\* no transport; whatever was logged before, the requests go on being
\* dispatched: outputs reach onOutput and the terminal message resolves.
C20_ParseErrorDropped ==
    /\ [][\A s \in Sessions :
             logged'[s] # logged[s] =>
                 /\ logged'[s] = logged[s] + 1
                 /\ calls' = calls
                 /\ table' = table
                 /\ ws' = ws
                 /\ connects' = connects]_vars
    /\ [](\A c \in AllSent :
             /\ calls[c].outcome # "rejected"
             /\ Ended(c) <=> calls[c].outcome = "resolved"
             /\ calls[c].kind = "execute" => calls[c].sink = OutputsOf(calls[c].seen))

C20_Witness ==
    \E c \in AllSent :
        /\ logged[calls[c].sess] >= 1
        /\ calls[c].outcome = "resolved"
        /\ Delivered = 2

\* the text a value of content.data stands for
TextOf(v) ==
    CASE v.t = "str" -> v.s
      [] v.t = "num" /\ v.n = 2 -> "2"
      [] v.t = "null" -> "null"

DataTypes == {"execute_result", "display_data"}

\* C21: every execute_result or display_data message produces one output, and
\* that output has exactly one item per key of content.data, with the key as
\* MIME type and the text of the key's value as bytes.
C21_OneItemPerMimeKey ==
    /\ \A k \in DOMAIN omsgs :
          omsgs[k].type \in DataTypes =>
              Cardinality({o \in DOMAIN oouts : oouts[o].from = k}) = 1
    /\ \A o \in DOMAIN oouts :
          LET m == omsgs[oouts[o].from]
              items == oouts[o].items
          IN  m.type \in DataTypes =>
                  /\ Len(items) = Len(m.data)
                  /\ \A i \in DOMAIN m.data :
                        /\ Cardinality({j \in DOMAIN items :
                                           items[j].mime = m.data[i].key}) = 1
                        /\ \E j \in DOMAIN items :
                              /\ items[j].mime = m.data[i].key
                              /\ items[j].bytes = TextOf(m.data[i].val)

C21_Witness ==
    \E o \in DOMAIN oouts :
        /\ omsgs[oouts[o].from].type = "execute_result"
        /\ Len(oouts[o].items) = 2
        /\ oouts[o].items[1].bytes = "2"
        /\ oouts[o].items[2].bytes = "null"

\* HTTP calls sent so far by the request
Sends == Len(hsends) + IF hphase = "inflight" THEN 1 ELSE 0

\* C22 as stated: with maxRetries = n configured, one request sends the HTTP
\* call at most n + 1 times.
C22_AtMostConfiguredRetries == Sends <= hcfg + 1

\* what the code keeps: at most RetryLimit + 1 calls, which is n + 1 for every
\* n other than 0
C22_AtMostLimitPlusOne ==
    /\ Sends <= RetryLimit + 1
    /\ hcfg # 0 => Sends <= hcfg + 1

Is4xx(r) == r.kind = "http" /\ r.status >= 400 /\ r.status < 500
Is5xx(r) == r.kind = "http" /\ r.status >= 500 /\ r.status < 600

\* C29 as stated: a call is sent again only after a network error or a 5xx
\* response; a 4xx response ends the request with an error at once; a 5xx
\* response is retried, whatever its body, while retries are left.
C29_RetryOnlyNetworkOr5xx ==
    \A i \in DOMAIN hsends :
        /\ i < Sends => (hsends[i].kind = "net" \/ Is5xx(hsends[i]))
        /\ Is4xx(hsends[i]) => (i = Len(hsends) /\ hphase = "thrown")
        /\ (Is5xx(hsends[i]) /\ i <= RetryLimit) => hphase # "thrown"

\* what the code does: the retry decision reads the body of the response
C29_RetryReadsBody ==
    \A i \in DOMAIN hsends :
        (i < Len(hsends) \/ hphase \in {"backoff", "inflight"}) =>
            \/ hsends[i].body.kind = "empty"
            \/ (hsends[i].body.status >= 500 /\ hsends[i].body.status < 600)

\* C30 as stated: once a poll was answered with HTTP 404, the interval timer is
\* cleared, isSupported is false and no further metrics request is issued,
\* until start() is called again.
C30_NotFoundDisablesAtOnce ==
    msaw404 =>
        /\ mtimer = 0 /\ mactive = {}
        /\ ~msupported
        /\ mafter404 = 0

\* what the code does: monitoring is disabled at once when the BODY of the
\* error response carries status 404
C30_BodyStatusDisables ==
    [][\A g \in 1..MaxStarts, r \in ErrorResponses :
          (MetPollFails(g, r) /\ Is404(HandleError(r))) =>
              (mtimer' = 0 /\ mactive' = {} /\ ~msupported')]_vars

\* the tokens stored for URL u
SavedFor(u) == {tsecret[u], tsetting[u]} \ {0}

\* C23 as stated: when delete-server completes for URL u, no key of the
\* storage and no entry of the settings holds a token that was saved for u,
\* and u is in neither the recent list nor the profile and user_options
\* mappings.
C23_DeleteLeavesNoToken ==
    [][\A u \in Hubs :
          StoreDeleteServer(u) =>
              /\ \A k \in 0..NumHubs : tsecret'[k] \notin SavedFor(u)
              /\ \A h \in Hubs : tsetting'[h] \notin SavedFor(u)
              /\ u \notin Range(trecent')
              /\ u \notin tprofile' /\ u \notin tuseropts']_vars

\* what the code keeps: the entries under u's own keys are removed
C23_OwnKeysCleared ==
    [][\A u \in Hubs :
          StoreDeleteServer(u) =>
              /\ tsecret'[u] = 0 /\ tsetting'[u] = 0
              /\ u \notin Range(trecent')
              /\ u \notin tprofile' /\ u \notin tuseropts']_vars

\* C24: an executeCode call is resolved at most once, and only by a step that
\* delivers, on its session, a status message with execution_state idle whose
\* parent id is the id of the call; once resolved, its outcome, its outputs and
\* its removed table entry stay as they are.
C24_ResolvedOnlyByOwnIdle ==
    [][\A c \in DOMAIN calls :
          calls[c].kind = "execute" =>
              /\ (calls[c].outcome = "pending" /\ calls'[c].outcome # "pending") =>
                    /\ calls'[c].outcome = "resolved"
                    /\ calls'[c].seen # <<>>
                    /\ calls'[c].seen = Append(calls[c].seen, Last(calls'[c].seen))
                    /\ Last(calls'[c].seen).parent = c
                    /\ Last(calls'[c].seen).type = "status"
                    /\ Last(calls'[c].seen).state = "idle"
              /\ calls[c].outcome = "resolved" =>
                    /\ calls'[c] = calls[c]
                    /\ c \notin table'[calls[c].sess]]_vars

\* a call resolved by its idle status after a message of its own that did not
\* resolve it
C24_Witness ==
    \E c \in SentCalls :
        /\ calls[c].outcome = "resolved"
        /\ Len(calls[c].seen) >= 2
        /\ Last(calls[c].seen).state = "idle"

\* a pending call that has been delivered a busy status, an execute_reply or
\* an output of its own
C24_WitnessPending ==
    \E c \in SentCalls :
        /\ calls[c].outcome = "pending"
        /\ \E i \in DOMAIN calls[c].seen :
              calls[c].seen[i].type \in {"status", "execute_reply"} \cup OutputTypes

\* C25: every executeCode call that sent its request eventually resolves, or
\* its transport stops delivering, when the idle status of the request is
\* emitted and delivered, whatever was delivered before it.
C25_EventuallyResolves ==
    \A c \in 1..MaxEvents :
        (c \in SentCalls) ~>
            (c \in SentCalls /\ (\/ calls[c].outcome = "resolved"
                                 \/ ws[calls[c].sess] \notin {"OPEN", "CLOSING"}))

\* a call resolved after an unparseable frame and an execute_reply of its own
\* were delivered on its session
C25_Witness ==
    \E c \in SentCalls :
        /\ calls[c].outcome = "resolved"
        /\ logged[calls[c].sess] > 0
        /\ \E i \in DOMAIN calls[c].seen : calls[c].seen[i].type = "execute_reply"

C28_FailedOnlyWhenRejected ==
    \A h \in Handlers : \A i \in DOMAIN hresults[h] :
        /\ i <= Len(hcalls[h])
        /\ ~hresults[h][i] <=> calls[hcalls[h][i].id].outcome = "rejected"
        /\ hresults[h][i] =>
              /\ calls[hcalls[h][i].id].outcome = "resolved"
              /\ Ended(hcalls[h][i].id)
              /\ i < hcells[h] => Len(hcalls[h]) > i

\* a cell ended as successful although the kernel reported an error message
\* for it, with the next cell of the batch sent
C28_Witness ==
    \E h \in Handlers :
        /\ Len(hresults[h]) >= 1 /\ hresults[h][1]
        /\ \E j \in DOMAIN calls[hcalls[h][1].id].sink :
              calls[hcalls[h][1].id].sink[j].type = "error"
        /\ Len(hcalls[h]) >= 2

\* a poll clears the interval timer that was running
PollStops == mtimer # 0 /\ mtimer' = 0

\* C31 as stated: a poll stops the polling exactly when more than ErrLimit polls
\* in a row have failed with an error other than a 404 (a 404 disables the
\* monitoring by itself); a successful poll resets the count.
C31_StopsAfterConsecutiveFailures ==
    /\ [][\A g \in 1..MaxStarts :
             /\ MetPollOk(g) => ~PollStops
             /\ \A r \in ErrorResponses :
                   (MetPollFails(g, r) /\ PollStops) =>
                       ((r.kind = "http" /\ r.status = 404) \/ mstreak' > ErrLimit)]_vars
    /\ [](mstreak > ErrLimit => mtimer = 0)

\* what the code keeps: a poll stops the polling exactly when the body of the
\* error carries status 404 or consecutiveErrors exceeds ErrLimit, and a
\* successful poll sets consecutiveErrors to 0
C31_StopsOnCounter ==
    /\ [][\A g \in 1..MaxStarts :
             /\ MetPollOk(g) => (~PollStops /\ merrors' = 0)
             /\ \A r \in ErrorResponses :
                   (MetPollFails(g, r) /\ PollStops) =>
                       (Is404(HandleError(r)) \/ merrors' > ErrLimit)]_vars
    /\ [](merrors > ErrLimit => mtimer = 0)

\* C35 as stated: a poll issued by an earlier start() changes, when it settles,
\* neither consecutiveErrors nor isSupported nor the timer; at most one
\* interval timer is set at any moment.
C35_LatePollHasNoEffect ==
    /\ [][\A g \in 1..MaxStarts :
             (g < mgen /\ (MetPollOk(g) \/ \E r \in ErrorResponses : MetPollFails(g, r)))
                 => UNCHANGED <<merrors, msupported, mtimer, mactive, mapi>>]_vars
    /\ [](Cardinality(mactive) <= 1)

\* what the code keeps: at most one interval timer is set, and it is the one
\* this.timer holds
C35_OneTimer == Cardinality(mactive) <= 1 /\ mactive = {mtimer} \ {0}

\* no refreshControllers call is waiting for its kernelspec request
KcmQuiet == \A r \in DOMAIN kref : kref[r] # "await"

\* C36 as stated: once no refresh is in progress, the manager holds exactly one
\* controller per kernelspec of the latest successful refresh (none after a
\* dispose), and every other controller it created has been disposed.
C36_OneControllerPerSpec ==
    KcmQuiet =>
        /\ {kall[i].spec : i \in kheld} = kexpect
        /\ Cardinality(kheld) = Cardinality(kexpect)
        /\ \A i \in DOMAIN kall : kall[i].disposed <=> i \notin kheld

\* what the code keeps: a controller is disposed exactly when it has left
\* this.controllers
C36_LeftAreDisposed ==
    \A i \in DOMAIN kall : kall[i].disposed <=> i \notin kheld

\* the cell executions the controller created: <<handler, index>>
Executions == {<<h, i>> : h \in Handlers, i \in 1..MaxCells} \cap
              {e \in Handlers \X (1..MaxCells) : e[2] <= Len(hcalls[e[1]])}

\* C33: an execution created after another one, in any batch and for any
\* document, has a strictly greater execution order.
C33_OrderStrictlyIncreases ==
    \A e \in Executions : \A f \in Executions :
        hcalls[e[1]][e[2]].id < hcalls[f[1]][f[2]].id =>
            hcalls[e[1]][e[2]].order < hcalls[f[1]][f[2]].order

\* two batches for two documents overlap: the later one created an execution
\* while the earlier one still waits for its cell
C33_Witness ==
    \E h \in Handlers, g \in Handlers :
        /\ h # g /\ hdoc[h] # hdoc[g]
        /\ hpc[h] = "awaitExec" /\ hpc[g] = "awaitExec"
        /\ Len(hcalls[h]) >= 1 /\ Len(hcalls[g]) >= 1

\* C34 as stated: when an invocation of the handler has returned, the kernel
\* it started is served by a session stored in the controller's map.
C34_NoOrphanedKernel ==
    \A h \in Handlers :
        (hpc[h] = "done" /\ hkernel[h]) => hsess[h] \in Stored

\* what the code keeps: an invocation that started a kernel and returned
\* without reporting a failure had stored its session
C34_StoredUnlessFailed ==
    [][\A h \in Handlers :
          (hpc[h] = "connect" /\ hpc'[h] # "connect" /\ ~hreported'[h]) =>
              executions'[hdoc[h]] = hsess[h]]_vars

\* a connectServer call that failed returns
ConnEndsFailed(c) == cpc[c] = "closing" /\ cpc'[c] = "idle"

\* C32 as stated: whenever a connectServer call ends with a failure, the
\* clients and currentUser are null, metrics polling is stopped, the kernel
\* controllers are disposed and the context key is false.
C32_FailureDisconnects ==
    [][\A c \in ConnCalls : ConnEndsFailed(c) => conn' = Disconnected]_vars

\* C37 as stated: while no connectServer call is in progress, the context key
\* is true exactly when the clients are set and metrics polling was started.
C37_ContextMatchesClients ==
    ConnQuiet => (conn.ctx <=> (conn.hub # 0 /\ conn.apis /\ conn.metrics))

\* C4 as stated: per document at most one kernel is started, at most one
\* session is connected, and a connected session whose handler has gone past
\* connect() is the one stored in the map.
C4_OneSessionPerDoc ==
    \A d \in Docs :
        /\ Cardinality({h \in Handlers : hdoc[h] = d /\ hkernel[h]}) <= 1
        /\ Cardinality({s \in Live : sessDoc[s] = d /\ ws[s] = "OPEN"}) <= 1
        /\ \A s \in Live :
              (/\ sessDoc[s] = d
               /\ ws[s] = "OPEN"
               /\ \A h \in Handlers : hsess[h] = s => hpc[h] # "connect")
              => executions[d] = s

\* handler h awaits a request that is in flight on a closed transport
InFlightOnClosed(h) ==
    /\ hpc[h] = "awaitExec"
    /\ calls[hcall[h]].outcome = "pending"
    /\ ws[hsess[h]] = "CLOSED"

\* C6 as stated: a cell whose request is in flight when the transport closes
\* is eventually ended as failed.
C6_DropSurfaced ==
    \A h \in Handlers :
        InFlightOnClosed(h) ~> (hresults[h] # <<>> /\ ~Last(hresults[h]))

\* once a request is in flight on a closed transport, no step of the
\* controller or of the transport ever ends it
C6_StaysPending ==
    [][\A h \in Handlers : InFlightOnClosed(h) =>
          (InFlightOnClosed(h))' /\ hresults'[h] = hresults[h]]_vars

\* C7 as stated: a run request never takes from the map a session whose
\* transport has closed.
C7_DeadSessionNotReused ==
    \A h \in Handlers : reused[h] # "CLOSED"

\* C8 as stated: when the handler returns after a failed kernel start or
\* connect, the map holds no session for its document, the error was reported
\* and no request of the batch was sent.
C8_FailedStartLeavesNoSession ==
    \A h \in Handlers :
        hreported[h] =>
            /\ failSaw[h] = 0
            /\ hresults[h] = <<>>
            /\ hcall[h] = 0

\* what the failing invocation of C8 itself guarantees: it ran no cell and sent
\* no request, and a session found in the map when it returns was stored by
\* another invocation for the same document
C8_FailedInvocationStoresNothing ==
    \A h \in Handlers :
        hreported[h] =>
            /\ hresults[h] = <<>>
            /\ hcall[h] = 0
            /\ failSaw[h] # hsess[h] \/ failSaw[h] = 0
            /\ failSaw[h] # 0 =>
                  \E g \in Handlers \ {h} :
                      hdoc[g] = hdoc[h] /\ hkernel[g] /\ hsess[g] = failSaw[h]

\* C38 as stated: a token stored under the key of a hub URL, in SecretStorage
\* or in the settings, and a token sent to a hub, was typed in for that hub.
C38_TokenStaysWithHub ==
    /\ \A u \in Hubs :
          /\ tsecret[u] # 0 => towner[tsecret[u]] = u
          /\ tsetting[u] # 0 => towner[tsetting[u]] = u
    /\ \A p \in tsent : towner[p[2]] = p[1]

\* what the code keeps: a token in the setting tokenByServer is one typed in
\* for its hub; the copies go over the key jupyterhub.token of SecretStorage
C38_SettingsStayWithHub ==
    \A u \in Hubs : tsetting[u] # 0 => towner[tsetting[u]] = u

====
